---- MODULE Spec2Model ----
(***************************************************************************)
(* Model of src/main.py, the segment intersection analyzer: parse_line,    *)
(* format_number, segments_intersect, load_entries, analyze_pairs,         *)
(* save_entries, create_plot and main.                                     *)
(*                                                                         *)
(* Numbers.  A float is modelled by the integer number of HALVES it holds  *)
(* (the float 100002.5 is 200005).  Every modelled coordinate is a         *)
(* multiple of 1/2 below 2^24 in magnitude, so the doubles, their          *)
(* differences and the products of differences are exact in the program    *)
(* and the integer arithmetic below is the program's arithmetic.  An       *)
(* orientation is then a multiple of 1/4, counted in QUARTERS.             *)
(*                                                                         *)
(* Text.  A str is a sequence of tokens.  Two neighbouring tokens that are *)
(* not whitespace tokens are separated by exactly one space.  Token kinds: *)
(*   "num"   the spelling str(int(v)) / "%g" gives for the value v         *)
(*   "alt"   any other spelling float() accepts for v ("4.0", "1e+06",     *)
(*           "100002.5" whose "%g" form is "100002")                       *)
(*   "word"  a token float() rejects                                       *)
(*   "sp"    a run of blanks other than the single separating space        *)
(*   "nl"    the line terminator "\n"                                      *)
(* The labels are transliterated: "Peresekaetsya" is the source's          *)
(* "Пересекается", "Ne peresekaetsya" the source's "Не пересекается".      *)
(***************************************************************************)
EXTENDS Integers, Sequences, FiniteSets, TLC

VARIABLES
    exists,     \* input_path.exists()
    file,       \* the bytes of the file at input_path
    content,    \* what read_text returned to load_entries
    pc,         \* position of main
    run,        \* number of the current invocation of main
    skip_plot,  \* args.skip_plot
    plt,        \* TRUE iff the import of matplotlib.pyplot succeeded
    entries,    \* main's list of LineEntry
    index,      \* loop variable of analyze_pairs' first loop
    compared,   \* index pairs analyze_pairs handed to segments_intersect
    stdout,     \* what the current invocation printed
    plot_file,  \* TRUE iff a plot artifact was saved
    written,    \* the contents save_entries wrote, one per invocation
    geo,        \* a direct call of segments_intersect and its results
    calls,      \* calls of analyze_pairs on the current entries
    assigned    \* per entry, the assignments to output_text in this call

vars == <<exists, file, content, pc, run, skip_plot, plt, entries, index, compared,
          stdout, plot_file, written, geo, calls, assigned>>

\* ---------------------------------------------------------------- bounds
MaxLines == 4
MaxRuns == 2
MaxCalls == 2
GridMax == 2

\* ---------------------------------------------------------------- tokens
NumTok(v) == [k |-> "num", v |-> v, w |-> ""]
AltTok(v) == [k |-> "alt", v |-> v, w |-> ""]
WordTok(w) == [k |-> "word", v |-> 0, w |-> w]
SP == [k |-> "sp", v |-> 0, w |-> ""]
NL == [k |-> "nl", v |-> 0, w |-> "\n"]

Abs(x) == IF x < 0 THEN -x ELSE x
Min(a, b) == IF a <= b THEN a ELSE b
Max(a, b) == IF a >= b THEN a ELSE b

RECURSIVE Pow10(_)
Pow10(n) == IF n = 0 THEN 1 ELSE 10 * Pow10(n - 1)

\* number of decimal digits of the natural number n (Digits(0) = 1)
RECURSIVE Digits(_)
Digits(n) == IF n < 10 THEN 1 ELSE 1 + Digits(n \div 10)

\* float(token): <<>> is ValueError, <<v>> the value
float(tok) == IF tok.k \in {"num", "alt"} THEN <<tok.v>> ELSE <<>>

\* value.is_integer()
is_integer(value) == value % 2 = 0

\* round-half-even of num/den, num >= 0, den > 0
RoundHalfEven(num, den) ==
    LET fl == num \div den
        rem == num % den
    IN  IF 2 * rem < den THEN fl
        ELSE IF 2 * rem > den THEN fl + 1
        ELSE IF fl % 2 = 0 THEN fl ELSE fl + 1

\* f"{value:g}" of a non-integral value: six significant digits.  A value
\* X.5 with X of at most five digits is printed exactly; otherwise it is
\* rounded to six significant digits, and printed with an exponent when the
\* rounded value reaches 10^6.
FormatG(value) ==
    LET mag == Abs(value)
        sgn == IF value < 0 THEN -1 ELSE 1
        d == Digits(mag \div 2)
    IN  IF d <= 5 THEN NumTok(value)
        ELSE LET q == Pow10(d - 6)
                 r == RoundHalfEven(mag, 2 * q) * q
             IN  IF r < Pow10(6) THEN NumTok(sgn * 2 * r)
                 ELSE AltTok(sgn * 2 * r)

format_number(value) ==
    IF is_integer(value) THEN NumTok(value) ELSE FormatG(value)

\* ------------------------------------------------------------- LineEntry
None == <<>>
Some(x) == <<x>>

LineEntry(text) ==
    [original_text |-> text, numbers |-> None, sanitized_text |-> None,
     output_text |-> None, color |-> "tab:gray"]

ensure_sanitized(entry) ==
    IF entry.numbers = None THEN entry
    ELSE IF entry.sanitized_text = None
         THEN [entry EXCEPT !.sanitized_text =
                   Some([i \in 1..4 |-> format_number(entry.numbers[i])])]
         ELSE entry

\* line.rstrip("\n")
RECURSIVE rstrip_nl(_)
rstrip_nl(s) ==
    IF s # <<>> /\ s[Len(s)].k = "nl" THEN rstrip_nl(SubSeq(s, 1, Len(s) - 1))
    ELSE s

\* line.strip().split()
IsBlank(tok) == tok.k \in {"sp", "nl"}
NotBlank(tok) == ~IsBlank(tok)
split(s) == SelectSeq(s, NotBlank)

parse_line_no_count(line) ==
    LET tokens == split(line)
        entry == LineEntry(rstrip_nl(line))
        nums == SelectSeq(tokens, LAMBDA t : float(t) # <<>>)
    IN  IF Len(nums) < 4 THEN entry
        ELSE ensure_sanitized(
                 [entry EXCEPT !.numbers = [i \in 1..4 |-> nums[i].v]])

parse_line(line) ==
    LET tokens == split(line)
        entry == LineEntry(rstrip_nl(line))
    IN  IF Len(tokens) < 4 THEN entry
        ELSE IF \E i \in 1..4 : float(tokens[i]) = <<>> THEN entry
        ELSE ensure_sanitized(
                 [entry EXCEPT !.numbers = [i \in 1..4 |-> float(tokens[i])[1]]])

\* -------------------------------------------------------------- geometry
Segment(x1, y1, x2, y2) == [start |-> <<x1, y1>>, end |-> <<x2, y2>>]

\* in quarters
orientation(p, q, r) ==
    (q[1] - p[1]) * (r[2] - p[2]) - (q[2] - p[2]) * (r[1] - p[1])

\* abs(o) < 1e-9: an orientation is a whole number of quarters, and the only
\* one below 1e-9 in magnitude is 0
NearZero(o) == Abs(o) < 1

\* min - 1e-9 <= q <= max + 1e-9: the coordinates are whole numbers of
\* halves, so the tolerance admits no value the exact comparison rejects
on_segment_x_only(p, q, r) ==
    Min(p[1], r[1]) <= q[1] /\ q[1] <= Max(p[1], r[1])

on_segment(p, q, r) ==
    /\ Min(p[1], r[1]) <= q[1] /\ q[1] <= Max(p[1], r[1])
    /\ Min(p[2], r[2]) <= q[2] /\ q[2] <= Max(p[2], r[2])

segments_intersect_one_turn(first, second) ==
    LET p1 == first.start
        q1 == first.end
        p2 == second.start
        q2 == second.end
        o1 == orientation(p1, q1, p2)
        o2 == orientation(p1, q1, q2)
        o3 == orientation(p2, q2, p1)
        o4 == orientation(p2, q2, q1)
    IN  \/ /\ o1 > 0 /\ o2 < 0
           /\ (o3 > 0 /\ o4 < 0) \/ (o3 < 0 /\ o4 > 0)
        \/ NearZero(o1) /\ on_segment(p1, p2, q1)
        \/ NearZero(o2) /\ on_segment(p1, q2, q1)
        \/ NearZero(o3) /\ on_segment(p2, p1, q2)
        \/ NearZero(o4) /\ on_segment(p2, q1, q2)

segments_intersect_no_o3(first, second) ==
    LET p1 == first.start
        q1 == first.end
        p2 == second.start
        q2 == second.end
        o1 == orientation(p1, q1, p2)
        o2 == orientation(p1, q1, q2)
        o3 == orientation(p2, q2, p1)
        o4 == orientation(p2, q2, q1)
    IN  \/ /\ (o1 > 0 /\ o2 < 0) \/ (o1 < 0 /\ o2 > 0)
           /\ (o3 > 0 /\ o4 < 0) \/ (o3 < 0 /\ o4 > 0)
        \/ NearZero(o1) /\ on_segment(p1, p2, q1)
        \/ NearZero(o2) /\ on_segment(p1, q2, q1)
        \/ NearZero(o4) /\ on_segment(p2, q1, q2)

segments_intersect(first, second) ==
    LET p1 == first.start
        q1 == first.end
        p2 == second.start
        q2 == second.end
        o1 == orientation(p1, q1, p2)
        o2 == orientation(p1, q1, q2)
        o3 == orientation(p2, q2, p1)
        o4 == orientation(p2, q2, q1)
    IN  \/ /\ (o1 > 0 /\ o2 < 0) \/ (o1 < 0 /\ o2 > 0)
           /\ (o3 > 0 /\ o4 < 0) \/ (o3 < 0 /\ o4 > 0)
        \/ NearZero(o1) /\ on_segment(p1, p2, q1)
        \/ NearZero(o2) /\ on_segment(p1, q2, q1)
        \/ NearZero(o3) /\ on_segment(p2, p1, q2)
        \/ NearZero(o4) /\ on_segment(p2, q1, q2)

\* ------------------------------------------------------------------ files
\* str.splitlines(): the lines of s without their terminators; a final line
\* without terminator is a line only when it is not empty
RECURSIVE splitlines(_)
splitlines(s) ==
    LET nls == {j \in 1..Len(s) : s[j].k = "nl"}
    IN  IF s = <<>> THEN <<>>
        ELSE IF nls = {} THEN <<s>>
        ELSE LET i == CHOOSE j \in nls : \A h \in nls : j <= h
             IN  <<SubSeq(s, 1, i - 1)>> \o splitlines(SubSeq(s, i + 1, Len(s)))

\* "\n".join(texts)
RECURSIVE join(_)
join(texts) ==
    IF texts = <<>> THEN <<>>
    ELSE IF Len(texts) = 1 THEN texts[1]
    ELSE texts[1] \o <<NL>> \o join(Tail(texts))

\* text is file_path.read_text()
load_entries(text) ==
    LET lines == splitlines(text)
    IN  [i \in 1..Len(lines) |-> parse_line(lines[i])]

\* content written by save_entries
save_entries(es) ==
    join([i \in 1..Len(es) |-> es[i].output_text[1]]) \o <<NL>>

\* ---------------------------------------------------------- analyze_pairs
result_text_swapped(intersects) ==
    IF intersects THEN <<WordTok("Ne"), WordTok("peresekaetsya")>>
    ELSE <<WordTok("Peresekaetsya")>>

result_text(intersects) ==
    IF intersects THEN <<WordTok("Peresekaetsya")>>
    ELSE <<WordTok("Ne"), WordTok("peresekaetsya")>>

pair_color(intersects) == IF intersects THEN "tab:red" ELSE "tab:green"

\* f"{entry.sanitized_text} {result_text}" if entry.sanitized_text
\*                                         else entry.original_text
labelled_text_keeps_tokens(entry, intersects) ==
    IF entry.sanitized_text # None /\ entry.sanitized_text[1] # <<>>
    THEN entry.original_text \o result_text(intersects)
    ELSE entry.original_text

labelled_text(entry, intersects) ==
    IF entry.sanitized_text # None /\ entry.sanitized_text[1] # <<>>
    THEN entry.sanitized_text[1] \o result_text(intersects)
    ELSE entry.original_text

entry_segment(entry) ==
    Segment(entry.numbers[1], entry.numbers[2], entry.numbers[3], entry.numbers[4])

\* range(0, len(entries) - 1, 2): the loop runs at index i of n entries, and
\* the index that follows i
in_range(i, n) == i < n - 1
next_index_overlapping(i) == i + 1
next_index(i) == i + 2

\* the pair the loop forms at position i (0-based): entries[i], entries[i + 1]
pair_second(i) == i + 1

\* the geometry test is run for the pair at i
pair_tested(es, i) ==
    es[i + 1].numbers # None /\ es[pair_second(i) + 1].numbers # None

\* one iteration of the first loop, lines 141-157
pair_body(es, i) ==
    LET a == i + 1
        b == pair_second(i) + 1
    IN  IF ~pair_tested(es, i) THEN es
        ELSE LET intersects == segments_intersect(entry_segment(es[a]),
                                                  entry_segment(es[b]))
                 first == ensure_sanitized(es[a])
                 second == ensure_sanitized(es[b])
                 es1 == [es EXCEPT ![a] =
                            [first EXCEPT !.output_text =
                                              Some(labelled_text(first, intersects)),
                                          !.color = pair_color(intersects)]]
             IN  [es1 EXCEPT ![b] =
                     [second EXCEPT !.output_text =
                                        Some(labelled_text(second, intersects)),
                                    !.color = pair_color(intersects)]]

\* the body of the second loop, lines 160-164
fallback_original(entry) ==
    IF entry.output_text = None
    THEN [entry EXCEPT !.output_text = Some(entry.original_text)]
    ELSE entry

fallback_stripped(entry) ==
    IF entry.output_text = None
    THEN IF entry.sanitized_text # None
         THEN [entry EXCEPT !.output_text = Some(entry.sanitized_text[1])]
         ELSE [entry EXCEPT !.output_text = Some(split(entry.original_text))]
    ELSE entry

fallback(entry) ==
    IF entry.output_text = None
    THEN IF entry.sanitized_text # None
         THEN [entry EXCEPT !.output_text = Some(entry.sanitized_text[1])]
         ELSE [entry EXCEPT !.output_text = Some(entry.original_text)]
    ELSE entry

pair_count_overlapping(n) == Cardinality(0..(n - 2))

\* sum(1 for _ in range(0, len(entries) - 1, 2))
pair_count(n) == Cardinality({i \in 0..(n - 2) : i % 2 = 0})

\* -------------------------------------------------------------- messages
Msg(m, n) == [msg |-> m, n |-> n]

\* entries create_plot draws
segments_to_plot(es) == SelectSeq(es, LAMBDA e : e.numbers # None)

\* ---------------------------------------------------------------- inputs
\* the float 100000 + k/2, in halves
Near(k) == 200000 + k

\* "100000 100002 100004 100002": the horizontal segment at y = 100002
LineA == <<NumTok(Near(0)), NumTok(Near(4)), NumTok(Near(8)), NumTok(Near(4))>>
\* "100002 100002.5 100002 100004": a vertical segment that starts half a
\* unit above LineA's segment and ends on LineC's
LineB == <<NumTok(Near(4)), AltTok(Near(5)), NumTok(Near(4)), NumTok(Near(8))>>
\* "  100000.0 100004 100004 100004   extra": the horizontal segment at
\* y = 100004, with irregular blanks, another spelling and a fifth token
LineC == <<SP, AltTok(Near(0)), NumTok(Near(8)), NumTok(Near(8)), NumTok(Near(8)),
           SP, WordTok("extra")>>
\* "100000 100000 x 100004 100004": a non-numeric token among the first four
LineD == <<NumTok(Near(0)), NumTok(Near(0)), WordTok("x"), NumTok(Near(8)),
           NumTok(Near(8))>>
\* "  100000 100004": fewer than four tokens
LineE == <<SP, NumTok(Near(0)), NumTok(Near(8))>>

LineSet == {LineA, LineB, LineC, LineD, LineE}

\* the files of at most MaxLines lines of LineSet, the last line with or
\* without its terminator
InputFiles ==
    UNION {{join(ls) \o tail : ls \in [1..n -> LineSet], tail \in {<<>>, <<NL>>}}
           : n \in 0..MaxLines}

\* the lines "0 0 4 4 extra", "0 4 4 0" and "not a number here"
ScenarioA == <<NumTok(0), NumTok(0), NumTok(8), NumTok(8), WordTok("extra")>>
ScenarioB == <<NumTok(0), NumTok(8), NumTok(8), NumTok(0)>>
ScenarioC == <<WordTok("not"), WordTok("a"), WordTok("number"), WordTok("here")>>
ScenarioLines == {ScenarioA, ScenarioB, ScenarioC}

\* the files of at most MaxLines of these lines
ScenarioFiles ==
    UNION {{join(ls) \o tail : ls \in [1..n -> ScenarioLines], tail \in {<<>>, <<NL>>}}
           : n \in 0..MaxLines}

\* the points of the integer grid, in halves
GridPoints == {<<2 * x, 2 * y>> : x \in 0..(GridMax + 1), y \in 0..GridMax}
GridSegments == {[start |-> p, end |-> q] : p \in GridPoints, q \in GridPoints}

GeoIdle ==
    [first |-> Segment(0, 0, 0, 0), second |-> Segment(0, 0, 0, 0),
     ab |-> None, ba |-> None, ra |-> None, rb |-> None, rab |-> None]

\* the segment with its endpoints listed in the other order
Reverse(seg) == [start |-> seg.end, end |-> seg.start]

\* ------------------------------------------------------------------ main
Init ==
    /\ exists \in BOOLEAN
    /\ file \in (IF exists THEN InputFiles ELSE {<<>>})
    /\ content = <<>>
    /\ pc = "start"
    /\ run = 1
    /\ skip_plot = FALSE
    /\ plt = FALSE
    /\ entries = <<>>
    /\ index = 0
    /\ compared = {}
    /\ stdout = <<>>
    /\ plot_file = FALSE
    /\ written = <<>>
    /\ geo = GeoIdle
    /\ calls = 0
    /\ assigned = <<>>

\* lines 218-221 (and the import at lines 35-38): the arguments are parsed,
\* a missing input file raises FileNotFoundError
MainStart ==
    /\ pc = "start"
    /\ \E s \in BOOLEAN, m \in BOOLEAN : skip_plot' = s /\ plt' = m
    /\ pc' = IF exists THEN "load" ELSE "FileNotFoundError"
    /\ UNCHANGED <<exists, file, content, run, entries, index, compared, stdout,
                   plot_file, written, geo, calls, assigned>>

\* line 223, and line 224 up to the first loop: analyze_pairs is entered
LoadEntries ==
    /\ pc = "load"
    /\ content' = file
    /\ entries' = load_entries(file)
    /\ index' = 0
    /\ compared' = {}
    /\ calls' = 1
    /\ assigned' = [i \in 1..Len(entries') |-> 0]
    /\ pc' = "pairs"
    /\ UNCHANGED <<exists, file, run, skip_plot, plt, stdout, plot_file,
                   written, geo>>

\* lines 140-157: one iteration of the pair loop
PairStep ==
    /\ pc = "pairs"
    /\ in_range(index, Len(entries))
    /\ entries' = pair_body(entries, index)
    /\ compared' = IF pair_tested(entries, index)
                   THEN compared \cup {<<index, pair_second(index)>>}
                   ELSE compared
    /\ index' = next_index(index)
    /\ assigned' = [i \in 1..Len(assigned) |->
                       IF pair_tested(entries, index)
                          /\ i \in {index + 1, pair_second(index) + 1}
                       THEN assigned[i] + 1 ELSE assigned[i]]
    /\ UNCHANGED <<exists, file, content, pc, run, skip_plot, plt, stdout, plot_file,
                   written, geo, calls>>

\* lines 159-164: the pair loop is over, the second loop runs
FallbackLoop ==
    /\ pc = "pairs"
    /\ ~in_range(index, Len(entries))
    /\ entries' = [i \in 1..Len(entries) |-> fallback(entries[i])]
    /\ assigned' = [i \in 1..Len(assigned) |->
                       IF entries[i].output_text = None
                       THEN assigned[i] + 1 ELSE assigned[i]]
    /\ pc' = "save"
    /\ UNCHANGED <<exists, file, content, run, skip_plot, plt, index, compared, stdout,
                   plot_file, written, geo, calls>>

\* line 225
SaveEntries ==
    /\ pc = "save"
    /\ file' = save_entries(entries)
    /\ written' = Append(written, save_entries(entries))
    /\ pc' = "plot"
    /\ UNCHANGED <<exists, content, run, skip_plot, plt, entries, index, compared,
                   stdout, plot_file, geo, calls, assigned>>

\* line 227, --skip-plot
SkipPlot ==
    /\ pc = "plot"
    /\ skip_plot
    /\ pc' = "summary"
    /\ UNCHANGED <<exists, file, content, run, skip_plot, plt, entries, index, compared,
                   stdout, plot_file, written, geo, calls, assigned>>

\* lines 180-182
CreatePlotNoBackend ==
    /\ pc = "plot"
    /\ ~skip_plot
    /\ ~plt
    /\ stdout' = Append(stdout, Msg("no matplotlib", 0))
    /\ pc' = "summary"
    /\ UNCHANGED <<exists, file, content, run, skip_plot, plt, entries, index, compared,
                   plot_file, written, geo, calls, assigned>>

\* lines 184-187
CreatePlotNoData ==
    /\ pc = "plot"
    /\ ~skip_plot
    /\ plt
    /\ segments_to_plot(entries) = <<>>
    /\ stdout' = Append(stdout, Msg("no data", 0))
    /\ pc' = "summary"
    /\ UNCHANGED <<exists, file, content, run, skip_plot, plt, entries, index, compared,
                   plot_file, written, geo, calls, assigned>>

\* lines 189-206 and 229-230: the figure is drawn and saved
CreatePlotSaved ==
    /\ pc = "plot"
    /\ ~skip_plot
    /\ plt
    /\ segments_to_plot(entries) # <<>>
    /\ plot_file' = TRUE
    /\ stdout' = Append(stdout, Msg("plot saved", 0))
    /\ pc' = "summary"
    /\ UNCHANGED <<exists, file, content, run, skip_plot, plt, entries, index, compared,
                   written, geo, calls, assigned>>

\* lines 189-205: a matplotlib call raises (fig.savefig on a plot path that
\* cannot be written); nothing in create_plot or main catches it
CreatePlotRaises ==
    /\ pc = "plot"
    /\ ~skip_plot
    /\ plt
    /\ segments_to_plot(entries) # <<>>
    /\ pc' = "PlotError"
    /\ UNCHANGED <<exists, file, content, run, skip_plot, plt, entries, index, compared,
                   stdout, plot_file, written, geo, calls, assigned>>

\* lines 232-233
Summary ==
    /\ pc = "summary"
    /\ stdout' = Append(stdout, Msg("pairs processed", pair_count(Len(entries))))
    /\ pc' = "done"
    /\ UNCHANGED <<exists, file, content, run, skip_plot, plt, entries, index, compared,
                   plot_file, written, geo, calls, assigned>>

\* the script is invoked again on the same path
Rerun ==
    /\ pc = "done"
    /\ run < MaxRuns
    /\ run' = run + 1
    /\ pc' = "start"
    /\ content' = <<>>
    /\ entries' = <<>>
    /\ index' = 0
    /\ compared' = {}
    /\ stdout' = <<>>
    /\ skip_plot' = FALSE
    /\ plt' = FALSE
    /\ calls' = 0
    /\ assigned' = <<>>
    /\ UNCHANGED <<exists, file, plot_file, written, geo>>

Next ==
    \/ MainStart
    \/ LoadEntries
    \/ PairStep
    \/ FallbackLoop
    \/ SaveEntries
    \/ SkipPlot
    \/ CreatePlotNoBackend
    \/ CreatePlotNoData
    \/ CreatePlotSaved
    \/ CreatePlotRaises
    \/ Summary
    \/ Rerun

Spec == Init /\ [][Next]_vars

\* ------------------------------------------- main on the scenario's lines
InitScenario ==
    /\ exists = TRUE
    /\ file \in ScenarioFiles
    /\ content = <<>>
    /\ pc = "start"
    /\ run = 1
    /\ skip_plot = FALSE
    /\ plt = FALSE
    /\ entries = <<>>
    /\ index = 0
    /\ compared = {}
    /\ stdout = <<>>
    /\ plot_file = FALSE
    /\ written = <<>>
    /\ geo = GeoIdle
    /\ calls = 0
    /\ assigned = <<>>

SpecScenario == InitScenario /\ [][Next]_vars

\* ------------------------------- analyze_pairs, called again and again
InitCalls ==
    /\ exists = TRUE
    /\ file \in InputFiles
    /\ content = <<>>
    /\ pc = "load"
    /\ run = 1
    /\ skip_plot = FALSE
    /\ plt = FALSE
    /\ entries = <<>>
    /\ index = 0
    /\ compared = {}
    /\ stdout = <<>>
    /\ plot_file = FALSE
    /\ written = <<>>
    /\ geo = GeoIdle
    /\ calls = 0
    /\ assigned = <<>>

\* analyze_pairs has returned and is called on the same list once more
AnalyzeAgain ==
    /\ pc = "save"
    /\ calls < MaxCalls
    /\ calls' = calls + 1
    /\ index' = 0
    /\ compared' = {}
    /\ assigned' = [i \in 1..Len(entries) |-> 0]
    /\ pc' = "pairs"
    /\ UNCHANGED <<exists, file, content, run, skip_plot, plt, entries, stdout,
                   plot_file, written, geo>>

NextCalls ==
    \/ LoadEntries
    \/ PairStep
    \/ FallbackLoop
    \/ AnalyzeAgain

SpecCalls == InitCalls /\ [][NextCalls]_vars

\* ------------------------------------------- segments_intersect, directly
InitGeom ==
    /\ exists = FALSE
    /\ file = <<>>
    /\ content = <<>>
    /\ pc = "off"
    /\ run = 1
    /\ skip_plot = FALSE
    /\ plt = FALSE
    /\ entries = <<>>
    /\ index = 0
    /\ compared = {}
    /\ stdout = <<>>
    /\ plot_file = FALSE
    /\ written = <<>>
    /\ calls = 0
    /\ assigned = <<>>
    /\ \E a \in GridSegments, b \in GridSegments :
           geo = [first |-> a, second |-> b, ab |-> None, ba |-> None,
                  ra |-> None, rb |-> None, rab |-> None]

\* segments_intersect(first, second), segments_intersect(second, first), and
\* the calls with the endpoints of the first, of the second and of both
\* segments listed in the other order
CallIntersect ==
    /\ pc = "off"
    /\ geo.ab = None
    /\ geo' = [geo EXCEPT
                  !.ab = Some(segments_intersect(geo.first, geo.second)),
                  !.ba = Some(segments_intersect(geo.second, geo.first)),
                  !.ra = Some(segments_intersect(Reverse(geo.first), geo.second)),
                  !.rb = Some(segments_intersect(geo.first, Reverse(geo.second))),
                  !.rab = Some(segments_intersect(Reverse(geo.first),
                                                  Reverse(geo.second)))]
    /\ UNCHANGED <<exists, file, content, pc, run, skip_plot, plt, entries, index,
                   compared, stdout, plot_file, written, calls, assigned>>

NextGeom == CallIntersect

SpecGeom == InitGeom /\ [][NextGeom]_vars

\* ================================================================ claims
\* main has rewritten the file in this invocation
Saved == pc \in {"plot", "summary", "done", "PlotError"}
\* analyze_pairs has returned in this invocation
Analyzed == pc \in {"save"} \/ Saved

\* the line has fewer than four tokens, or a non-numeric one among the first four
Unparseable(line) ==
    LET t == split(line)
    IN  Len(t) < 4 \/ \E i \in 1..4 : t[i].k = "word"

Labels == {<<WordTok("Peresekaetsya")>>, <<WordTok("Ne"), WordTok("peresekaetsya")>>}
HasLabel(e) ==
    /\ e.output_text # None
    /\ e.sanitized_text # None
    /\ \E l \in Labels : e.output_text[1] = e.sanitized_text[1] \o l

\* C1: every later run of the pipeline on the file a first run produced
\* writes the content the first run wrote, byte for byte.
C1_Idempotent == \A i \in 2..Len(written) : written[i] = written[1]

\* C2: a line with fewer than four tokens, or with a non-numeric token among
\* its first four, stands unchanged at the same position of the rewritten
\* file, whatever its pair partner is.
C2_PassThrough ==
    Saved =>
        LET ins == splitlines(content)
            outs == splitlines(file)
        IN  \A i \in 1..Len(ins) :
                Unparseable(ins[i]) => i <= Len(outs) /\ outs[i] = ins[i]

\* a run is over in which a line short of tokens and a line with a
\* non-numeric token each stood in a pair with a line that parsed
C2_Witness ==
    /\ pc = "done"
    /\ LET ins == splitlines(content)
       IN  /\ Len(ins) = 4
           /\ Len(split(ins[1])) < 4 /\ ~Unparseable(ins[2])
           /\ ~Unparseable(ins[3])
           /\ Len(split(ins[4])) >= 4 /\ Unparseable(ins[4])

\* the point p of the integer grid, in grid units
Unit(p) == <<p[1] \div 2, p[2] \div 2>>

\* The closed segments a and b share a point: some point of a, at parameter
\* t/den, is the point of b at parameter u/den.  The denominators that need
\* trying: when the directions are not parallel the one candidate point has
\* parameters with the denominator |cross(da, db)|; when they are parallel
\* and the segments meet, an endpoint of one lies on the other, at a
\* parameter whose denominator is at most the width of the grid.
SharePoint(a, b) ==
    LET p1 == Unit(a.start)
        q1 == Unit(a.end)
        p2 == Unit(b.start)
        q2 == Unit(b.end)
        cross == (q1[1] - p1[1]) * (q2[2] - p2[2]) - (q1[2] - p1[2]) * (q2[1] - p2[1])
        dens == IF cross # 0 THEN {Abs(cross)} ELSE 1..(GridMax + 1)
    IN  \E den \in dens : \E t \in 0..den : \E u \in 0..den :
            \A c \in 1..2 :
                den * p1[c] + t * (q1[c] - p1[c]) = den * p2[c] + u * (q2[c] - p2[c])

\* C3: on the integer grid, degenerate segments included, segments_intersect
\* is true exactly when the two closed segments share a point.
C3_IntersectIffSharePoint ==
    geo.ab # None => (geo.ab[1] <=> SharePoint(geo.first, geo.second))

\* collinear overlap: (0,0)-(2,0) and (1,0)-(3,0) were tested and intersect
C3_Witness ==
    /\ geo.first = Segment(0, 0, 4, 0)
    /\ geo.second = Segment(2, 0, 6, 0)
    /\ geo.ab = Some(TRUE)

\* C4: segments_intersect(a, b) = segments_intersect(b, a).
C4_Symmetric == geo.ab # None => geo.ab = geo.ba

\* the start of the first segment lies inside the second, which is not
\* collinear with it, and both calls answered true
C4_Witness ==
    /\ geo.first = Segment(2, 0, 2, 4)
    /\ geo.second = Segment(0, 0, 4, 0)
    /\ geo.ab = Some(TRUE)
    /\ geo.ba = Some(TRUE)

\* the entries at file positions i and i + 1 (1-based) are a pair of the loop
IsPair(i) == i % 2 = 1 /\ i + 1 <= Len(entries)

\* the index pairs (0-based) handed to segments_intersect that hold position i
TestsWith(i) == {pr \in compared : pr[1] = i - 1 \/ pr[2] = i - 1}

\* the text analyze_pairs owes an entry that got no label
Unlabelled(e) ==
    IF e.numbers # None THEN e.sanitized_text ELSE Some(e.original_text)

\* C5: with an odd number of lines the last line is in no pair, no geometry
\* test is run with it, its classification stays at the default and its
\* output text is its canonical number text if it parsed, its original text
\* otherwise, without a label.
C5_OddLast ==
    Len(entries) % 2 = 1 =>
        LET n == Len(entries)
            e == entries[n]
        IN  /\ TestsWith(n) = {}
            /\ e.color = "tab:gray"
            /\ ~HasLabel(e)
            /\ e.output_text = IF Analyzed THEN Unlabelled(e) ELSE None
            /\ Saved => splitlines(file)[n] = Unlabelled(e)[1]

\* three lines, all three segments, the first two tested, the run over
C5_Witness ==
    /\ pc = "done"
    /\ Len(entries) = 3
    /\ entries[3].numbers # None
    /\ entries[3].sanitized_text # Some(entries[3].original_text)
    /\ compared = {<<0, 1>>}

\* C6: with an odd number of valid segment lines, the last valid line is in
\* no geometry test and is written without a label, wherever the invalid
\* lines stand.
C6_OddValidLastIgnored ==
    Analyzed =>
        LET valid == {i \in 1..Len(entries) : entries[i].numbers # None}
        IN  Cardinality(valid) % 2 = 1 =>
                LET last == CHOOSE i \in valid : \A j \in valid : j <= i
                IN  TestsWith(last) = {} /\ ~HasLabel(entries[last])

\* C7: pairs are (0,1), (2,3), ... by file position; a pair with an entry
\* without numbers is not tested, and its entries are written without a
\* label: the parsed one as its canonical text, the other as its original.
C7_PairsByPosition ==
    /\ \A pr \in compared : pr[1] % 2 = 0 /\ pr[2] = pr[1] + 1
    /\ Analyzed =>
           \A i \in 1..Len(entries) :
               (IsPair(i) /\ (entries[i].numbers = None \/ entries[i + 1].numbers = None))
               => /\ TestsWith(i) = {} /\ TestsWith(i + 1) = {}
                  /\ \A j \in {i, i + 1} :
                         /\ entries[j].output_text = Unlabelled(entries[j])
                         /\ ~HasLabel(entries[j])
    /\ Saved =>
           LET outs == splitlines(file)
           IN  \A i \in 1..Len(entries) :
                   (IsPair(i) /\ (entries[i].numbers = None \/ entries[i + 1].numbers = None))
                   => /\ outs[i] = Unlabelled(entries[i])[1]
                      /\ outs[i + 1] = Unlabelled(entries[i + 1])[1]

\* the first pair was tested; the second pair is a segment line not in
\* canonical form and a line that did not parse
C7_Witness ==
    /\ pc = "done"
    /\ Len(entries) = 4
    /\ compared = {<<0, 1>>}
    /\ entries[3].numbers # None
    /\ entries[3].sanitized_text # Some(entries[3].original_text)
    /\ entries[4].numbers = None

\* the segment the first four tokens of the entry's line give
LineSegment(e) ==
    LET t == split(e.original_text)
    IN  Segment(t[1].v, t[2].v, t[3].v, t[4].v)

\* C8: both entries of a pair with numbers carry the same label and colour:
\* canonical text, a space and "Peresekaetsya" with tab:red when the two
\* segments intersect, "Ne peresekaetsya" with tab:green when they do not.
C8_PairLabel ==
    LET outs == IF Saved THEN splitlines(file) ELSE <<>>
    IN
    \A i \in 1..Len(entries) :
        (/\ IsPair(i)
         /\ entries[i].numbers # None /\ entries[i + 1].numbers # None
         /\ Analyzed \/ (pc = "pairs" /\ i - 1 < index))
        => LET x == segments_intersect(LineSegment(entries[i]),
                                       LineSegment(entries[i + 1]))
               label == IF x THEN <<WordTok("Peresekaetsya")>>
                        ELSE <<WordTok("Ne"), WordTok("peresekaetsya")>>
           IN  \A j \in {i, i + 1} :
                   /\ entries[j].output_text =
                          Some(entries[j].sanitized_text[1] \o label)
                   /\ entries[j].color = IF x THEN "tab:red" ELSE "tab:green"
                   /\ Saved => outs[j] = entries[j].output_text[1]

\* two pairs were tested, the first intersecting, the second not
C8_Witness ==
    /\ pc = "done"
    /\ compared = {<<0, 1>>, <<2, 3>>}
    /\ entries[1].color = "tab:red" /\ entries[2].color = "tab:red"
    /\ entries[3].color = "tab:green" /\ entries[4].color = "tab:green"

C10_PlotNeverAborts ==
    pc \in {"done", "PlotError"} =>
        /\ Len(written) = run
        /\ \E k \in 1..Len(stdout) : stdout[k].msg = "pairs processed"

\* the invocation ended with an uncaught exception
Failed == pc \in {"FileNotFoundError", "PlotError"}

\* nothing was parsed, analysed, written, plotted or printed
Untouched ==
    /\ file = <<>> /\ content = <<>> /\ entries = <<>> /\ compared = {}
    /\ written = <<>> /\ ~plot_file /\ stdout = <<>>

\* C11: a missing input path makes main fail before anything is parsed,
\* analysed, written or plotted, and no file appears; with the path present
\* the run does not fail and ends with the summary printed, whatever the
\* lines hold.
C11_MissingFailsElseSuccess ==
    /\ ~exists => Untouched /\ pc \in {"start", "FileNotFoundError"}
    /\ exists => ~Failed
    /\ pc = "done" => \E k \in 1..Len(stdout) : stdout[k].msg = "pairs processed"

\* the three-line scenario and the file it is to become
ScenarioInput == join(<<ScenarioA, ScenarioB, ScenarioC>>) \o <<NL>>
ScenarioOutput ==
    join(<<<<NumTok(0), NumTok(0), NumTok(8), NumTok(8), WordTok("Peresekaetsya")>>,
           <<NumTok(0), NumTok(8), NumTok(8), NumTok(0), WordTok("Peresekaetsya")>>,
           ScenarioC>>) \o <<NL>>

\* C12: the last thing main prints is the number of pairs the pair loop
\* formed, one per two lines; for the three-line scenario it is 1 and the
\* file holds the two labelled lines and the third line unchanged.
C12_SummaryCount ==
    pc = "done" =>
        LET last == stdout[Len(stdout)]
        IN  /\ last.msg = "pairs processed"
            /\ 2 * last.n = index
            /\ 2 * last.n \in {Len(entries), Len(entries) - 1}
            /\ content = ScenarioInput => last.n = 1 /\ file = ScenarioOutput

\* a run on the three-line scenario is over
C12_Witness == pc = "done" /\ run = 1 /\ content = ScenarioInput

\* the canonical text of the first four numbers of a line that parses
Canonical(line) == [k \in 1..4 |-> format_number(split(line)[k].v)]

\* C13: the output line of a line whose first four tokens are numbers is the
\* canonical text of those four numbers, alone or followed by one label;
\* nothing else of the input line is written again.  So every output line
\* is four numbers and a label, four numbers, or the original unparsed text.
C13_ThreeShapes ==
    Saved =>
        LET ins == splitlines(content)
            outs == splitlines(file)
        IN  /\ Len(outs) >= Len(ins)
            /\ \A i \in 1..Len(ins) :
                   IF Unparseable(ins[i]) THEN outs[i] = ins[i]
                   ELSE \/ outs[i] = Canonical(ins[i])
                        \/ \E l \in Labels : outs[i] = Canonical(ins[i]) \o l

\* a second run is over whose first input line carried the label of the
\* first run behind its four numbers, and is written with one label
C13_Witness ==
    /\ pc = "done"
    /\ run = 2
    /\ LET ins == splitlines(content)
           outs == splitlines(file)
       IN  /\ Len(split(ins[1])) >= 5
           /\ split(ins[1])[5] \in {WordTok("Peresekaetsya"), WordTok("Ne")}
           /\ \E l \in Labels : outs[1] = Canonical(ins[1]) \o l

\* C14: an entry without numbers has no canonical text, keeps the default
\* colour and, once its output text is set, has its original text there; an
\* entry has canonical text only if it has numbers.  This holds after
\* parse_line and after every call of analyze_pairs.
C14_DataModel ==
    \A i \in 1..Len(entries) :
        LET e == entries[i]
        IN  /\ e.numbers = None =>
                   /\ e.sanitized_text = None
                   /\ e.color = "tab:gray"
                   /\ e.output_text \in {None, Some(e.original_text)}
            /\ e.sanitized_text # None => e.numbers # None

\* the second call of analyze_pairs has returned on a list that holds a
\* labelled pair and an unparsed line written as its original text
C14_Witness ==
    /\ pc = "save"
    /\ calls = 2
    /\ Len(entries) = 4
    /\ HasLabel(entries[1]) /\ HasLabel(entries[2])
    /\ entries[3].numbers = None
    /\ entries[3].original_text # split(entries[3].original_text)
    /\ entries[3].output_text = Some(entries[3].original_text)

\* C15: within one call of analyze_pairs by main every entry's output text
\* is assigned exactly once, by the pair loop or by the second loop and not
\* by both; the original text stays the input line; when analyze_pairs has
\* returned no output text is unset, so save_entries meets none.
C15_AssignedOnce ==
    LET ins == splitlines(content)
    IN  /\ Len(assigned) = Len(entries)
        /\ Len(ins) = Len(entries)
        /\ \A i \in 1..Len(entries) :
               /\ assigned[i] <= 1
               /\ assigned[i] = 1 <=> entries[i].output_text # None
               /\ Analyzed => assigned[i] = 1
               /\ entries[i].original_text = ins[i]

\* analyze_pairs has returned on four lines: the first two were labelled by
\* the pair loop, the last two written by the second loop
C15_Witness ==
    /\ pc = "save"
    /\ Len(entries) = 4
    /\ compared = {<<0, 1>>}
    /\ HasLabel(entries[1]) /\ HasLabel(entries[2])
    /\ ~HasLabel(entries[3]) /\ ~HasLabel(entries[4])
    /\ \A i \in 1..4 : assigned[i] = 1

====
